---- MODULE Spec2Model ----
(***************************************************************************)
(* A model of the awstools repository: the configuration-value resolver    *)
(* (common/config_values.go), the ecs-deploy command and the aws-dump      *)
(* command.                                                                *)
(*                                                                         *)
(* Go strings are sequences of one-character strings, so that HasPrefix,   *)
(* HasSuffix and slicing are computed as the code computes them.  A Go     *)
(* map[string]interface{} is a function from keys to tagged values:        *)
(*   [t |-> "string", s |-> <<...>>]   a JSON string                       *)
(*   [t |-> "map",    m |-> f]         a nested map[string]interface{}     *)
(*   [t |-> "other",  n |-> i]         any other JSON value (number, ...)  *)
(*   [t |-> "Source", Type, Name, Identifier]   a Source placeholder       *)
(*   [t |-> "strmap", m |-> f]         a map[string]string of a provider   *)
(* Go iterates a map in an unspecified order: every operator that ranges   *)
(* over a map returns the SET of results over all iteration orders.        *)
(***************************************************************************)
EXTENDS Integers, Sequences, FiniteSets, TLC

VARIABLES
    \* GenerateFromMap applied to an input: the input, the results, the position
    genSrc, genDst, genErr, genPc,
    \* a ConfigValues and its caller: the content of the JSON file (Unset: no
    \* readable file), the ConfigValues, the caller's output map, the operation
    \* called last and where it stands, the error it returned, the RefreshState
    \* a Refresh ended with, the locals i and wait of RefreshWithRetries, and
    \* what it did so far (its calls of Refresh and of time.Sleep, in order)
    configFile, cfg, out, op, pc, ret, rstate, i, wait, events,
    \* ecs-deploy: the flags --task-json, --task-name, --service and --timeout,
    \* the position in main, whether the new task definition is registered, the
    \* number of UpdateService calls made, the services they updated, the local
    \* pending, the seconds since start, the services of the last
    \* DescribeServices result with their state, and the number of polls
    taskJSON, taskName, services, timeout,
    deployPc, registered, updateCalls, updated, pending, elapsed, lastPoll, polls,
    \* aws-dump: the flags --terraform-backends-config and --only-unmanaged, what
    \* the terraform backends hold, the position in main, the resources fetched,
    \* the managed map loaded, the report built and the file written
    terraformBackendConfig, onlyUnmanaged, backendState,
    dumpPc, resources, managed, report, written

genVars == <<genSrc, genDst, genErr, genPc>>

configVars == <<configFile, cfg, out, op, pc, ret, rstate, i, wait, events>>

deployVars ==
    <<taskJSON, taskName, services, timeout,
      deployPc, registered, updateCalls, updated, pending, elapsed, lastPoll, polls>>

dumpVars ==
    <<terraformBackendConfig, onlyUnmanaged, backendState,
      dumpPc, resources, managed, report, written>>

vars == <<genVars, configVars, deployVars, dumpVars>>

\* ------------------------------------------------------------------ bounds

\* The total number of entries (over all nesting levels) of an input map of
\* GenerateFromMap.
MaxEntries == 2

\* The total number of entries (over all nesting levels) of the JSON file a
\* ConfigValues is set from.
MaxConfigEntries == 3

\* The number of --service flags of ecs-deploy.
MaxServices == 2

\* The largest --timeout of ecs-deploy, in seconds.
MaxTimeout == 2

\* The seconds a call may take, and a sleep may take beyond what was asked.
MaxDelay == 1

\* The number of resources aws-dump fetches.
MaxResources == 3

\* ----------------------------------------------------------------- strings

HasPrefix(s, prefix) ==
    /\ Len(s) >= Len(prefix)
    /\ SubSeq(s, 1, Len(prefix)) = prefix

HasSuffix(s, suffix) ==
    /\ Len(s) >= Len(suffix)
    /\ SubSeq(s, Len(s) - Len(suffix) + 1, Len(s)) = suffix

\* s[n:]
SliceFrom(s, n) == SubSeq(s, n + 1, Len(s))

\* s[:n]
SliceTo(s, n) == SubSeq(s, 1, n)

\* ------------------------------------------------------------------ values

StringV(s) == [t |-> "string", s |-> s]
MapV(m) == [t |-> "map", m |-> m]
OtherV(n) == [t |-> "other", n |-> n]
StrMapV(m) == [t |-> "strmap", m |-> m]

Source(type, name, identifier) ==
    [t |-> "Source", Type |-> type, Name |-> name, Identifier |-> identifier]

EmptyMap == <<>>

\* A value not set (a nil map, a variable not yet assigned).
Unset == [t |-> "unset"]

\* An error value: the call that failed and its argument.  NoErr is nil.
Err(api, arg) == [api |-> api, arg |-> arg]
NoErr == Err("nil", <<>>)

\* dst[key] = value
Put(dst, key, value) ==
    [x \in (DOMAIN dst) \cup {key} |-> IF x = key THEN value ELSE dst[x]]

SourceTypes == {"KMS", "SSM", "SECRETS_MANAGER", "FILE"}

MaxRetriesDefault == 5

NewConfigValues ==
    [ Sources |-> EmptyMap,
      Static |-> EmptyMap,
      MaxRetries |-> MaxRetriesDefault,
      KeyPrefixes |->
        [ KMS |-> <<"K", "M", "S", "_">>,
          SSM |-> <<"S", "S", "M", "_">>,
          SECRETS_MANAGER |->
            <<"S", "E", "C", "R", "E", "T", "S", "_",
              "M", "A", "N", "A", "G", "E", "R", "_">>,
          FILE |-> <<"F", "I", "L", "E", "_">> ],
      ValuePrefixes |->
        [ KMS |-> <<"k", "m", "s", ":", "/", "/">>,
          SSM |-> <<"s", "s", "m", ":", "/", "/">>,
          SECRETS_MANAGER |->
            <<"s", "e", "c", "r", "e", "t", "s", "-",
              "m", "a", "n", "a", "g", "e", "r", ":", "/", "/">>,
          FILE |-> <<"f", "i", "l", "e", ":", "/", "/">> ] ]

\* --------------------------------------------------------- GenerateFromMap

\* GenerateString with the value-prefixes looked at before the key-prefixes.
GenerateStringValueFirst(c, key, value) ==
    LET keyTypes == {st \in DOMAIN c.KeyPrefixes : HasPrefix(key, c.KeyPrefixes[st])}
        valTypes == {st \in DOMAIN c.ValuePrefixes : HasPrefix(value, c.ValuePrefixes[st])}
    IN  IF valTypes # {}
        THEN { <<key, Source(st, key, SliceFrom(value, Len(c.ValuePrefixes[st])))>> :
                 st \in valTypes }
        ELSE IF keyTypes # {}
        THEN { LET stripped == SliceFrom(key, Len(c.KeyPrefixes[st]))
                   name == IF HasPrefix(stripped, <<"_">>) THEN <<>> ELSE stripped
               IN  <<name, Source(st, name, value)>> : st \in keyTypes }
        ELSE { <<key, StringV(value)>> }

\* The string case of GenerateFromMap for one entry: the set of
\* <<destination key, destination value>> pairs over the iteration orders of
\* the prefix tables (the first matching prefix met wins, and any matching
\* prefix may be met first).
GenerateString(c, key, value) ==
    LET keyTypes == {st \in DOMAIN c.KeyPrefixes : HasPrefix(key, c.KeyPrefixes[st])}
        valTypes == {st \in DOMAIN c.ValuePrefixes : HasPrefix(value, c.ValuePrefixes[st])}
    IN  IF keyTypes # {}
        THEN { LET stripped == SliceFrom(key, Len(c.KeyPrefixes[st]))
                   name == IF HasPrefix(stripped, <<"_">>) THEN <<>> ELSE stripped
               IN  <<name, Source(st, name, value)>> : st \in keyTypes }
        ELSE IF valTypes # {}
        THEN { <<key, Source(st, key, SliceFrom(value, Len(c.ValuePrefixes[st])))>> :
                 st \in valTypes }
        ELSE { <<key, StringV(value)>> }

RECURSIVE GenerateFromMap(_, _)
RECURSIVE GenerateRange(_, _, _, _)

\* GenerateEntry writing the empty string for a string that has neither a
\* key-prefix nor a value-prefix.
GenerateEntryLosesLiteral(c, key, value) ==
    CASE value.t = "map" ->
           { <<key, MapV(val)>> : val \in GenerateFromMap(c, value.m) }
      [] value.t = "string" ->
           { IF e[2].t = "string" THEN <<e[1], StringV(<<>>)>> ELSE e :
             e \in GenerateString(c, key, value.s) }
      [] OTHER -> { <<key, value>> }

\* One entry of the range loop: the pairs it may write to dst.
GenerateEntry(c, key, value) ==
    CASE value.t = "map" ->
           { <<key, MapV(val)>> : val \in GenerateFromMap(c, value.m) }
      [] value.t = "string" -> GenerateString(c, key, value.s)
      [] OTHER -> { <<key, value>> }

\* The range loop over the entries of src not yet visited (rest), with dst as
\* written so far: the set of final dst over all iteration orders.
GenerateRange(c, src, rest, dst) ==
    IF rest = {} THEN {dst}
    ELSE UNION { UNION { GenerateRange(c, src, rest \ {key}, Put(dst, e[1], e[2])) :
                           e \in GenerateEntry(c, key, src[key]) } :
                 key \in rest }

\* GenerateFromMap never returns an error: the set of maps it may return.
GenerateFromMap(c, src) == GenerateRange(c, src, DOMAIN src, EmptyMap)

\* ------------------------------------------------------------------ inputs

\* Keys and string values of the input maps.
PlainKeys ==
    { <<"a">>, <<"K", "M", "S">> }

PrefixedKeys ==
    { <<"K", "M", "S", "_", "a">>,
      <<"S", "S", "M", "_", "_", "b">>,
      <<"F", "I", "L", "E", "_">>,
      <<"S", "E", "C", "R", "E", "T", "S", "_",
        "M", "A", "N", "A", "G", "E", "R", "_", "a">> }

PlainStrings ==
    { <<"v">>, <<"k", "m", "s", ":", "/", "x">> }

PrefixedStrings ==
    { <<"k", "m", "s", ":", "/", "/", "c">>,
      <<"s", "s", "m", ":", "/", "/", "p">>,
      <<"s", "e", "c", "r", "e", "t", "s", "-",
        "m", "a", "n", "a", "g", "e", "r", ":", "/", "/", "s">>,
      <<"f", "i", "l", "e", ":", "/", "/", "f">> }

RECURSIVE Size(_)
RECURSIVE SizeOver(_, _)

SizeOver(m, keys) ==
    IF keys = {} THEN 0
    ELSE LET k == CHOOSE x \in keys : TRUE
         IN  1 + (IF m[k].t = "map" THEN Size(m[k].m) ELSE 0) + SizeOver(m, keys \ {k})

\* The number of entries of m, over all nesting levels.
Size(m) == SizeOver(m, DOMAIN m)

RECURSIVE MapsOver(_, _, _, _)

\* The values of size s (a leaf or an empty map is one entry; a nested map adds
\* its own entries).
ValuesOfSize(keys, leaves, s) ==
    IF s = 1 THEN leaves \cup {MapV(EmptyMap)}
    ELSE { MapV(m) : m \in {x \in MapsOver(keys, keys, leaves, s - 1) : Size(x) = s - 1} }

\* The maps with keys among some, of at most n entries over all levels.
MapsOver(keys, some, leaves, n) ==
    IF some = {} \/ n = 0 THEN {EmptyMap}
    ELSE LET k == CHOOSE x \in some : TRUE
         IN  MapsOver(keys, some \ {k}, leaves, n)
             \cup UNION { { Put(m, k, v) :
                              m \in MapsOver(keys, some \ {k}, leaves, n - s),
                              v \in ValuesOfSize(keys, leaves, s) } :
                          s \in 1..n }

GenKeys == PlainKeys \cup PrefixedKeys

GenLeaves ==
    {StringV(s) : s \in PlainStrings \cup PrefixedStrings} \cup {OtherV(1)}

GenInputs == MapsOver(GenKeys, GenKeys, GenLeaves, MaxEntries)

\* ------------------------------------------------------------- SetFromMap

\* c.SetFromMap(m): GenerateFromMap returns no error, so Static is replaced.
\* The set of configurations it may leave (one per iteration order).
SetFromMap(c, m) ==
    { [c EXCEPT !.Static = res] : res \in GenerateFromMap(c, m) }

\* c.Clear()
ClearConfig(c) == [c EXCEPT !.Sources = EmptyMap, !.Static = EmptyMap]

\* --------------------------------------------------------------- providers

\* What the outside world holds.  A call either fails or returns this.
FileContents(path) == <<"F", "=">> \o path
ParameterValue(name) == <<"P", "=">> \o name
SecretValue(name) == <<"S", "=">> \o name
Plaintext(blob) == <<"D", "=">> \o blob

\* ioutil.ReadFile(path): ([]byte, error)
ReadFile(path) ==
    { [err |-> NoErr, val |-> FileContents(path)],
      [err |-> Err("ReadFile", path)] }

\* strings.Split(name, "/") and its last part
RECURSIVE LastPart(_)
LastPart(name) ==
    IF name = <<>> THEN <<>>
    ELSE IF name[Len(name)] = "/" THEN <<>>
    ELSE Append(LastPart(SliceTo(name, Len(name) - 1)), name[Len(name)])

\* The parameters SSM lists under a path: one here, named path/k.
ParametersUnder(path) ==
    LET name == path \o <<"/", "k">>
    IN  << [Name |-> name, Value |-> ParameterValue(name)] >>

\* getParametersByPath(client, path): (map[string]string, error)
getParametersByPath(path) ==
    LET res == ParametersUnder(path)
        result == [key \in {LastPart(res[j].Name) : j \in 1..Len(res)} |->
                     LET j == CHOOSE x \in 1..Len(res) :
                                /\ LastPart(res[x].Name) = key
                                /\ \A y \in (x + 1)..Len(res) : LastPart(res[y].Name) # key
                     IN  res[j].Value]
    IN  { [err |-> NoErr, val |-> result],
          [err |-> Err("GetParametersByPath", path)] }

\* ssmGetParameter(client, name): (string, error)
ssmGetParameter(name) ==
    { [err |-> NoErr, val |-> ParameterValue(name)],
      [err |-> Err("GetParameter", name)] }

\* secretsManagerGetSecretValue(client, secretName, prefix): the secret is a
\* JSON object of strings; the call, the base64 decoding or the JSON decoding
\* may fail.
secretsManagerGetSecretValue(secretName, prefix) ==
    { [err |-> NoErr, val |-> (<<"k">> :> SecretValue(secretName))],
      [err |-> Err("GetSecretValue", secretName)],
      [err |-> Err("json.Unmarshal", secretName)] }

\* DecryptWithKMS(client, blob): ([]byte, error)
DecryptWithKMS(blob) ==
    { [err |-> NoErr, val |-> Plaintext(blob)],
      [err |-> Err("Decrypt", blob)] }

\* ----------------------------------------------------------------- Refresh

\* RefreshState.  A client field is 0 (nil) or the number of the client held:
\* every ssm.New, secretsmanager.New, kms.New returns a new client, numbered in
\* order of construction.  news lists the constructions and calls the provider
\* calls made, each with the client it was made on (0 for a file read).
NewRefreshState ==
    [ SecretsManagerClient |-> 0, KMSClient |-> 0, SSMClient |-> 0,
      news |-> <<>>, calls |-> <<>> ]

\* WithClient without the nil check: a client is constructed for every Source.
WithClientAlways(state, field) ==
    [state EXCEPT ![field] = Len(state.news) + 1,
                  !.news = Append(state.news, field)]

\* if state.XClient == nil { state.XClient = x.New(state.Session, state.Config) }
WithClient(state, field) ==
    IF state[field] = 0
    THEN [state EXCEPT ![field] = Len(state.news) + 1,
                       !.news = Append(state.news, field)]
    ELSE state

\* The call api(arg) on client, which returned err, noted in calls.
Called(state, api, client, arg, err) ==
    [state EXCEPT !.calls = Append(state.calls,
                      [api |-> api, client |-> client, arg |-> arg, err |-> err])]

\* One outcome of an entry of RefreshMap's range loop: the error, the write to
\* dst (put says whether there is one) and the state left.
EntryOutcome(err, put, key, val, state) ==
    [err |-> err, put |-> put, key |-> key, val |-> val, state |-> state]

\* The call api(arg) on client with the results it may have: value, err :=
\* api(arg); if err != nil { return nil, err }; dst[key] = value.
ProviderOutcomes(results, api, client, arg, key, state, isMap) ==
    { IF r.err # NoErr
      THEN EntryOutcome(r.err, FALSE, key, Unset, Called(state, api, client, arg, r.err))
      ELSE EntryOutcome(NoErr, TRUE, key,
                        IF isMap THEN StrMapV(r.val) ELSE StringV(r.val),
                        Called(state, api, client, arg, NoErr)) :
      r \in results }

\* case Source: the switch on source.Type.
RefreshSource(key, source, state) ==
    CASE source.Type = "FILE" ->
           ProviderOutcomes(ReadFile(source.Identifier),
             "ReadFile", 0, source.Identifier, source.Name, state, FALSE)
      [] source.Type = "SSM" ->
           LET st == WithClient(state, "SSMClient")
           IN  IF HasSuffix(source.Identifier, <<"/", "*">>)
               THEN LET path == SliceTo(source.Identifier, Len(source.Identifier) - 2)
                    IN  ProviderOutcomes(getParametersByPath(path),
                          "GetParametersByPath", st.SSMClient, path, key, st, TRUE)
               ELSE ProviderOutcomes(ssmGetParameter(source.Identifier),
                      "GetParameter", st.SSMClient, source.Identifier,
                      source.Name, st, FALSE)
      [] source.Type = "SECRETS_MANAGER" ->
           LET st == WithClient(state, "SecretsManagerClient")
           IN  ProviderOutcomes(
                 secretsManagerGetSecretValue(source.Identifier, source.Name),
                 "GetSecretValue", st.SecretsManagerClient, source.Identifier,
                 key, st, TRUE)
      [] source.Type = "KMS" ->
           LET st == WithClient(state, "KMSClient")
           IN  ProviderOutcomes(DecryptWithKMS(source.Identifier),
                 "Decrypt", st.KMSClient, source.Identifier, source.Name, st, FALSE)
      [] OTHER -> { EntryOutcome(NoErr, FALSE, key, Unset, state) }

RECURSIVE RefreshMap(_, _)
RECURSIVE RefreshRange(_, _, _, _)

\* One entry of the range loop of RefreshMap.
RefreshEntry(key, value, state) ==
    CASE value.t = "map" ->
           { IF r.err # NoErr
             THEN EntryOutcome(r.err, FALSE, key, Unset, r.state)
             ELSE EntryOutcome(NoErr, TRUE, key, r.dst, r.state) :
             r \in RefreshMap(value.m, state) }
      [] value.t = "Source" -> RefreshSource(key, value, state)
      [] OTHER -> { EntryOutcome(NoErr, TRUE, key, value, state) }

\* The results of RefreshMap: (dst, err) and the state left.  dst is MapV(m),
\* or Unset for the nil map returned with an error.
MapResult(dst, err, state) == [dst |-> dst, err |-> err, state |-> state]

\* RefreshRange going on to the next entry after an entry's error, which is
\* returned at the end.
RefreshRangeContinue(src, rest, dst, state) ==
    IF rest = {} THEN { MapResult(MapV(dst), NoErr, state) }
    ELSE UNION { UNION { IF o.err # NoErr
                         THEN { MapResult(Unset, o.err, r.state) :
                                r \in RefreshRange(src, rest \ {key}, dst, o.state) }
                         ELSE RefreshRange(src, rest \ {key},
                                IF o.put THEN Put(dst, o.key, o.val) ELSE dst,
                                o.state) :
                         o \in RefreshEntry(key, src[key], state) } :
                 key \in rest }

\* The range loop over the entries not yet visited (rest), with dst as written
\* so far: an entry's error returns at once.
RefreshRange(src, rest, dst, state) ==
    IF rest = {} THEN { MapResult(MapV(dst), NoErr, state) }
    ELSE UNION { UNION { IF o.err # NoErr
                         THEN { MapResult(Unset, o.err, o.state) }
                         ELSE RefreshRange(src, rest \ {key},
                                IF o.put THEN Put(dst, o.key, o.val) ELSE dst,
                                o.state) :
                         o \in RefreshEntry(key, src[key], state) } :
                 key \in rest }

RefreshMap(src, state) == RefreshRange(src, DOMAIN src, EmptyMap, state)

\* json.Marshal then json.Unmarshal of a value into interface{}: a
\* map[string]string becomes a map[string]interface{} of strings.
RECURSIVE JSONValue(_)
JSONValue(v) ==
    CASE v.t = "map" -> MapV([k \in DOMAIN v.m |-> JSONValue(v.m[k])])
      [] v.t = "strmap" -> MapV([k \in DOMAIN v.m |-> StringV(v.m[k])])
      [] OTHER -> v

\* json.Unmarshal(data, output) for an output *map[string]interface{}: the keys
\* of the document are set in the map, its other entries are kept.
Unmarshal(env, output) ==
    [k \in (DOMAIN env) \cup (DOMAIN output) |->
       IF k \in DOMAIN env THEN JSONValue(env[k]) ELSE output[k]]

\* c.Refresh(session, conf, output): the error returned, the output left and
\* the RefreshState the call ended with.
RefreshResult(err, output, state) == [err |-> err, output |-> output, state |-> state]

Refresh(c, output) ==
    { IF r.err # NoErr
      THEN RefreshResult(r.err, output, r.state)
      ELSE RefreshResult(NoErr, Unmarshal(r.dst.m, output), r.state) :
      r \in RefreshMap(c.Static, NewRefreshState) }

\* ----------------------------------------------- GenerateFromMap, applied

GenIdle ==
    /\ genSrc = EmptyMap
    /\ genDst = Unset
    /\ genErr = Err("unset", <<>>)
    /\ genPc = "off"

InitGenerate ==
    /\ genSrc \in GenInputs
    /\ genDst = Unset
    /\ genErr = Err("unset", <<>>)
    /\ genPc = "call"

\* dst, err := c.GenerateFromMap(genSrc)
Generate ==
    /\ genPc = "call"
    /\ genDst' \in GenerateFromMap(NewConfigValues, genSrc)
    /\ genErr' = NoErr
    /\ genPc' = "returned"
    /\ UNCHANGED <<genSrc, configVars, deployVars, dumpVars>>

\* ------------------------------------------- a ConfigValues and its caller

ConfigKeys == { <<"a">>, <<"b">> }

ConfigStrings ==
    { <<"v">>,
      <<"k", "m", "s", ":", "/", "/", "c">>,
      <<"s", "s", "m", ":", "/", "/", "p">>,
      <<"s", "s", "m", ":", "/", "/", "p", "/", "*">>,
      <<"s", "e", "c", "r", "e", "t", "s", "-",
        "m", "a", "n", "a", "g", "e", "r", ":", "/", "/", "s">>,
      <<"f", "i", "l", "e", ":", "/", "/", "f">> }

ConfigInputs ==
    MapsOver(ConfigKeys, ConfigKeys, {StringV(s) : s \in ConfigStrings}, MaxConfigEntries)

\* What the caller's output map holds before the first call: an entry of its
\* own, which json.Unmarshal into the map keeps.
OutputInits == { (<<"o">> :> StringV(<<"x">>)) }

FailedToRefresh == Err("Failed to refresh config", <<>>)

ConfigIdle ==
    /\ configFile = Unset
    /\ cfg = NewConfigValues
    /\ out = EmptyMap
    /\ op = "off"
    /\ pc = "off"
    /\ ret = NoErr
    /\ rstate = NewRefreshState
    /\ i = 0
    /\ wait = 0
    /\ events = <<>>

InitConfig ==
    /\ configFile \in {MapV(m) : m \in ConfigInputs} \cup {Unset}
    /\ cfg = NewConfigValues
    /\ out \in OutputInits
    /\ op = "NewConfigValues"
    /\ pc = "idle"
    /\ ret = NoErr
    /\ rstate = NewRefreshState
    /\ i = 0
    /\ wait = 0
    /\ events = <<>>

\* What a call leaves of the call before it: the RefreshState, the locals and
\* the events are those of the last call.
NoRefresh ==
    /\ rstate' = NewRefreshState
    /\ i' = 0
    /\ wait' = 0
    /\ events' = <<>>

\* c.SetFromJSON(filename): LoadJSON fails (no file, or not a JSON object) and
\* the error is returned, or SetFromMap(value).
SetFromJSON ==
    /\ pc = "idle"
    /\ op' = "SetFromJSON"
    /\ IF configFile.t # "map"
       THEN /\ ret' = Err("LoadJSON", <<>>)
            /\ cfg' = cfg
       ELSE /\ ret' = NoErr
            /\ cfg' \in SetFromMap(cfg, configFile.m)
    /\ NoRefresh
    /\ UNCHANGED <<configFile, out, pc>>
    /\ UNCHANGED <<genVars, deployVars, dumpVars>>

\* c.Clear()
Clear ==
    /\ pc = "idle"
    /\ op' = "Clear"
    /\ cfg' = ClearConfig(cfg)
    /\ ret' = NoErr
    /\ NoRefresh
    /\ UNCHANGED <<configFile, out, pc>>
    /\ UNCHANGED <<genVars, deployVars, dumpVars>>

\* RefreshCall keeping what it resolved in c.Static.
RefreshCallCaching ==
    /\ pc = "idle"
    /\ op' = "Refresh"
    /\ \E r \in Refresh(cfg, out) :
         /\ ret' = r.err
         /\ out' = r.output
         /\ rstate' = r.state
         /\ cfg' = IF r.err = NoErr THEN [cfg EXCEPT !.Static = r.output] ELSE cfg
    /\ i' = 0
    /\ wait' = 0
    /\ events' = <<>>
    /\ UNCHANGED <<configFile, pc>>
    /\ UNCHANGED <<genVars, deployVars, dumpVars>>

\* err := c.Refresh(session, conf, output)
RefreshCall ==
    /\ pc = "idle"
    /\ op' = "Refresh"
    /\ \E r \in Refresh(cfg, out) :
         /\ ret' = r.err
         /\ out' = r.output
         /\ rstate' = r.state
    /\ i' = 0
    /\ wait' = 0
    /\ events' = <<>>
    /\ UNCHANGED <<configFile, cfg, pc>>
    /\ UNCHANGED <<genVars, deployVars, dumpVars>>

\* c.RefreshWithRetries(session, conf, output) is called: wait := 2; i := 0
RetryBegin ==
    /\ pc = "idle"
    /\ op' = "RefreshWithRetries"
    /\ pc' = "for"
    /\ wait' = 2
    /\ i' = 0
    /\ events' = <<>>
    /\ ret' = NoErr
    /\ rstate' = NewRefreshState
    /\ UNCHANGED <<configFile, cfg, out>>
    /\ UNCHANGED <<genVars, deployVars, dumpVars>>

RefreshEvent(e) == [e |-> "Refresh", n |-> IF e = NoErr THEN 0 ELSE 1]
SleepEvent(secs) == [e |-> "Sleep", n |-> secs]

\* RetryAttempt with the loop condition i <= c.MaxRetries.
RetryAttemptOneMore ==
    /\ pc = "for"
    /\ i <= cfg.MaxRetries
    /\ \E r \in Refresh(cfg, out) :
         /\ events' = Append(events, RefreshEvent(r.err))
         /\ out' = r.output
         /\ IF r.err = NoErr
            THEN /\ pc' = "idle"
                 /\ wait' = wait
            ELSE /\ pc' = "sleep"
                 /\ wait' = wait * 2
    /\ UNCHANGED <<configFile, cfg, op, ret, rstate, i>>
    /\ UNCHANGED <<genVars, deployVars, dumpVars>>

\* i < c.MaxRetries: err := c.Refresh(...); if err == nil { return nil };
\* wait = wait * 2
RetryAttempt ==
    /\ pc = "for"
    /\ i < cfg.MaxRetries
    /\ \E r \in Refresh(cfg, out) :
         /\ events' = Append(events, RefreshEvent(r.err))
         /\ out' = r.output
         /\ IF r.err = NoErr
            THEN /\ pc' = "idle"
                 /\ wait' = wait
            ELSE /\ pc' = "sleep"
                 /\ wait' = wait * 2
    /\ UNCHANGED <<configFile, cfg, op, ret, rstate, i>>
    /\ UNCHANGED <<genVars, deployVars, dumpVars>>

\* time.Sleep(time.Duration(wait) * time.Second); i++
RetrySleep ==
    /\ pc = "sleep"
    /\ events' = Append(events, SleepEvent(wait))
    /\ i' = i + 1
    /\ pc' = "for"
    /\ UNCHANGED <<configFile, cfg, out, op, ret, rstate, wait>>
    /\ UNCHANGED <<genVars, deployVars, dumpVars>>

\* i >= c.MaxRetries: return errors.New("Failed to refresh config")
RetryGiveUp ==
    /\ pc = "for"
    /\ i >= cfg.MaxRetries
    /\ ret' = FailedToRefresh
    /\ pc' = "idle"
    /\ UNCHANGED <<configFile, cfg, out, op, rstate, i, wait, events>>
    /\ UNCHANGED <<genVars, deployVars, dumpVars>>

\* -------------------------------------------------------------- ecs-deploy

ServiceNames == {"web", "worker"}

RECURSIVE SeqsUpTo(_, _)
\* The sequences over S of length at most n.
SeqsUpTo(S, n) ==
    IF n = 0 THEN {<<>>}
    ELSE LET shorter == SeqsUpTo(S, n - 1)
         IN  shorter \cup {Append(q, x) : q \in shorter, x \in S}

Range(q) == {q[j] : j \in 1..Len(q)}

DeployIdle ==
    /\ taskJSON = ""
    /\ taskName = ""
    /\ services = <<>>
    /\ timeout = 0
    /\ deployPc = "off"
    /\ registered = FALSE
    /\ updateCalls = 0
    /\ updated = {}
    /\ pending = 0
    /\ elapsed = 0
    /\ lastPoll = <<>>
    /\ polls = 0

\* The flags as kingpin parses them: --service is required, so there is at
\* least one.
InitDeploy ==
    /\ taskJSON \in {"", "task.json"}
    /\ taskName \in {"", "task"}
    /\ services \in SeqsUpTo(ServiceNames, MaxServices) \ {<<>>}
    /\ timeout \in 0..MaxTimeout
    /\ deployPc = "flags"
    /\ registered = FALSE
    /\ updateCalls = 0
    /\ updated = {}
    /\ pending = 0
    /\ elapsed = 0
    /\ lastPoll = <<>>
    /\ polls = 0

DeployOnly == UNCHANGED <<genVars, configVars, dumpVars>>

\* CheckFlags without the check.
CheckFlagsMissing ==
    /\ deployPc = "flags"
    /\ deployPc' = "load"
    /\ UNCHANGED <<taskJSON, taskName, services, timeout, registered, updateCalls,
                   updated, pending, elapsed, lastPoll, polls>>
    /\ DeployOnly

\* if *taskJSON != "" && *taskName != "" { common.Fatalln(...) }
CheckFlags ==
    /\ deployPc = "flags"
    /\ deployPc' = IF taskJSON # "" /\ taskName # "" THEN "fatal" ELSE "load"
    /\ UNCHANGED <<taskJSON, taskName, services, timeout, registered, updateCalls,
                   updated, pending, elapsed, lastPoll, polls>>
    /\ DeployOnly

\* The task definition is read from the file (ReadFile and Unmarshal may fail)
\* or described by name (DescribeTaskDefinition may fail); with neither flag
\* main is fatal.  The images of --image are then set in it.  (With
\* --task-json the local taskName is then the family read, which main reads no
\* more: taskName stays the flag as given.)
LoadTaskDefinition ==
    /\ deployPc = "load"
    /\ IF taskJSON # "" \/ taskName # ""
       THEN deployPc' \in {"register", "fatal"}
       ELSE deployPc' = "fatal"
    /\ UNCHANGED <<taskJSON, taskName, services, timeout, registered, updateCalls,
                   updated, pending, elapsed, lastPoll, polls>>
    /\ DeployOnly

\* newTaskDefinition, err := updateTaskDefinition(ecsClient, taskDefinition);
\* common.FatalOnError(err); pending := 0
RegisterTaskDefinition ==
    /\ deployPc = "register"
    /\ \/ /\ registered' = TRUE
          /\ deployPc' = "update"
       \/ /\ registered' = FALSE
          /\ deployPc' = "fatal"
    /\ pending' = 0
    /\ UNCHANGED <<taskJSON, taskName, services, timeout, updateCalls,
                   updated, elapsed, lastPoll, polls>>
    /\ DeployOnly

\* One turn of the loop over *services: UpdateService succeeds (pending++) or
\* fails (a line on stderr).
UpdateService ==
    /\ deployPc = "update"
    /\ updateCalls < Len(services)
    /\ updateCalls' = updateCalls + 1
    /\ \/ /\ updated' = updated \cup {services[updateCalls + 1]}
          /\ pending' = pending + 1
       \/ /\ updated' = updated
          /\ pending' = pending
    /\ UNCHANGED <<taskJSON, taskName, services, timeout, deployPc, registered,
                   elapsed, lastPoll, polls>>
    /\ DeployOnly

\* The loop over *services is over: start := time.Now()
StartWaiting ==
    /\ deployPc = "update"
    /\ updateCalls = Len(services)
    /\ deployPc' = "for"
    /\ elapsed' = 0
    /\ UNCHANGED <<taskJSON, taskName, services, timeout, registered, updateCalls,
                   updated, pending, lastPoll, polls>>
    /\ DeployOnly

\* What DescribeServices may return for the services asked: every service
\* found, with Deployments[0] at its desired count ("ready") or not ("rolling").
DescribeServicesResults ==
    UNION { [found -> {"ready", "rolling"}] : found \in SUBSET Range(services) }

Pending(result) == Cardinality({s \in DOMAIN result : result[s] = "rolling"})

\* A wait loop that gives up only once the elapsed time is past *timeout
\* (> where the source has >=).
PollStrictlyAfter ==
    /\ deployPc = "for"
    /\ pending > 0
    /\ \E d \in 0..MaxDelay :
         /\ elapsed' = elapsed + d
         /\ polls' = polls + 1
         /\ \/ /\ deployPc' = "fatal"
               /\ UNCHANGED <<pending, lastPoll>>
            \/ \E result \in DescribeServicesResults :
                 /\ lastPoll' = result
                 /\ pending' = Pending(result)
                 /\ deployPc' = IF Pending(result) # 0
                                THEN IF elapsed + d > timeout THEN "fatal" ELSE "sleep"
                                ELSE "for"
    /\ UNCHANGED <<taskJSON, taskName, services, timeout, registered, updateCalls,
                   updated>>
    /\ UNCHANGED <<genVars, configVars, dumpVars>>

\* for pending > 0: one turn up to the sleep.  DescribeServices takes d
\* seconds and fails (fatal) or returns; pending is counted again; with
\* services pending, time.Since(start) >= *timeout is fatal.  (previousPending
\* decides only whether a line is printed.)
Poll ==
    /\ deployPc = "for"
    /\ pending > 0
    /\ \E d \in 0..MaxDelay :
         /\ elapsed' = elapsed + d
         /\ polls' = polls + 1
         /\ \/ /\ deployPc' = "fatal"
               /\ UNCHANGED <<pending, lastPoll>>
            \/ \E result \in DescribeServicesResults :
                 /\ lastPoll' = result
                 /\ pending' = Pending(result)
                 /\ deployPc' = IF Pending(result) # 0
                                THEN IF elapsed + d >= timeout THEN "fatal" ELSE "sleep"
                                ELSE "for"
    /\ UNCHANGED <<taskJSON, taskName, services, timeout, registered, updateCalls,
                   updated>>
    /\ DeployOnly

\* time.Sleep(1 * time.Second)
Sleep ==
    /\ deployPc = "sleep"
    /\ \E d \in 0..MaxDelay : elapsed' = elapsed + 1 + d
    /\ deployPc' = "for"
    /\ UNCHANGED <<taskJSON, taskName, services, timeout, registered, updateCalls,
                   updated, pending, lastPoll, polls>>
    /\ DeployOnly

\* pending == 0: the loop is left and main returns.
Return ==
    /\ deployPc = "for"
    /\ pending = 0
    /\ deployPc' = "done"
    /\ UNCHANGED <<taskJSON, taskName, services, timeout, registered, updateCalls,
                   updated, pending, elapsed, lastPoll, polls>>
    /\ DeployOnly

\* ---------------------------------------------------------------- aws-dump

\* The UniqueIDs of the resources of the accounts, and where a terraform state
\* that manages one is stored.
UniqueIDs == {"r1", "r2", "r3"}
StatePaths == {"s3://state"}

\* A nil ManagedBy.
NotManaged == [type |-> "", state |-> ""]

\* A Resource as Run returns it.
Resource(uid) == [uid |-> uid, ManagedBy |-> NotManaged]

\* resource.UniqueID()
UniqueID(resource) == resource.uid

DumpIdle ==
    /\ terraformBackendConfig = ""
    /\ onlyUnmanaged = FALSE
    /\ backendState = <<>>
    /\ dumpPc = "off"
    /\ resources = <<>>
    /\ managed = Unset
    /\ report = <<>>
    /\ written = Unset

InitDump ==
    /\ terraformBackendConfig \in {"", "backends.json"}
    /\ onlyUnmanaged \in BOOLEAN
    /\ backendState \in UNION { [ids -> StatePaths] : ids \in SUBSET UniqueIDs }
    /\ dumpPc = "jobs"
    /\ resources = <<>>
    /\ managed = Unset
    /\ report = <<>>
    /\ written = Unset

DumpOnly == UNCHANGED <<genVars, configVars, deployVars>>

\* The accounts are loaded and the jobs generated: an unreadable accounts
\* file, a --report that is not service:resource or names no service, or a
\* job that cannot be generated is fatal.
GenerateJobs ==
    /\ dumpPc = "jobs"
    /\ dumpPc' \in {"run", "fatal"}
    /\ UNCHANGED <<terraformBackendConfig, onlyUnmanaged, backendState,
                   resources, managed, report, written>>
    /\ DumpOnly

\* resources := Run(jobs); report := []Resource{}
RunJobs ==
    /\ dumpPc = "run"
    /\ resources' \in SeqsUpTo({Resource(uid) : uid \in UniqueIDs}, MaxResources)
    /\ report' = <<>>
    /\ dumpPc' = IF terraformBackendConfig # "" THEN "backends" ELSE "report"
    /\ UNCHANGED <<terraformBackendConfig, onlyUnmanaged, backendState,
                   managed, written>>
    /\ DumpOnly

\* NewTerraformBackends, backends.Pull() and backends.Load(): an error of any
\* is fatal, else managed maps the UniqueIDs in the states to their paths.
LoadBackends ==
    /\ dumpPc = "backends"
    /\ \/ /\ managed' = MapV(backendState)
          /\ dumpPc' = "report"
       \/ /\ managed' = managed
          /\ dumpPc' = "fatal"
    /\ UNCHANGED <<terraformBackendConfig, onlyUnmanaged, backendState,
                   resources, report, written>>
    /\ DumpOnly

RECURSIVE ReportLoop(_, _, _, _, _)

\* ReportLoop without the continue: a managed resource is reported, marked.
ReportLoopKeepsManaged(res, mng, only, j, rep) ==
    IF j > Len(res) THEN rep
    ELSE LET resource == res[j]
             isManaged == UniqueID(resource) \in DOMAIN mng
         IN  ReportLoop(res, mng, only, j + 1,
               Append(rep,
                 IF isManaged
                 THEN [resource EXCEPT !.ManagedBy =
                         [type |-> "terraform", state |-> mng[UniqueID(resource)]]]
                 ELSE resource))

\* for _, resource := range resources { ... }, from the j-th resource on, with
\* rep as appended to so far.
ReportLoop(res, mng, only, j, rep) ==
    IF j > Len(res) THEN rep
    ELSE LET resource == res[j]
             isManaged == UniqueID(resource) \in DOMAIN mng
         IN  IF isManaged /\ only
             THEN ReportLoop(res, mng, only, j + 1, rep)
             ELSE ReportLoop(res, mng, only, j + 1,
                    Append(rep,
                      IF isManaged
                      THEN [resource EXCEPT !.ManagedBy =
                              [type |-> "terraform", state |-> mng[UniqueID(resource)]]]
                      ELSE resource))

\* The report of main: the loop with a backends configuration, else resources.
BuildReport ==
    /\ dumpPc = "report"
    /\ report' = IF terraformBackendConfig # ""
                 THEN ReportLoop(resources, managed.m, onlyUnmanaged, 1, report)
                 ELSE resources
    /\ dumpPc' = "write"
    /\ UNCHANGED <<terraformBackendConfig, onlyUnmanaged, backendState,
                   resources, managed, written>>
    /\ DumpOnly

\* json.MarshalIndent and ioutil.WriteFile(*output, ...): an error is fatal.
WriteReport ==
    /\ dumpPc = "write"
    /\ \/ /\ written' = [t |-> "file", report |-> report]
          /\ dumpPc' = "done"
       \/ /\ written' = written
          /\ dumpPc' = "fatal"
    /\ UNCHANGED <<terraformBackendConfig, onlyUnmanaged, backendState,
                   resources, managed, report>>
    /\ DumpOnly

\* ---------------------------------------------------------- specifications

InitGen == InitGenerate /\ ConfigIdle /\ DeployIdle /\ DumpIdle

NextGenerate == Generate

SpecGenerate == InitGen /\ [][NextGenerate]_vars

Init == InitConfig /\ GenIdle /\ DeployIdle /\ DumpIdle

Next ==
    \/ SetFromJSON
    \/ Clear
    \/ RefreshCall
    \/ RetryBegin
    \/ RetryAttempt
    \/ RetrySleep
    \/ RetryGiveUp

Spec == Init /\ [][Next]_vars

InitEcsDeploy == InitDeploy /\ GenIdle /\ ConfigIdle /\ DumpIdle

NextDeploy ==
    \/ CheckFlags
    \/ LoadTaskDefinition
    \/ RegisterTaskDefinition
    \/ UpdateService
    \/ StartWaiting
    \/ Poll
    \/ Sleep
    \/ Return

SpecDeploy == InitEcsDeploy /\ [][NextDeploy]_vars

\* ecs-deploy as a running process: main is one goroutine that is never
\* suspended for ever, so a step that stays possible is taken (every call it
\* makes, DescribeServices and time.Sleep included, returns).
SpecDeployFair == InitEcsDeploy /\ [][NextDeploy]_vars /\ WF_vars(NextDeploy)

InitAwsDump == InitDump /\ GenIdle /\ ConfigIdle /\ DeployIdle

NextDump ==
    \/ GenerateJobs
    \/ RunJobs
    \/ LoadBackends
    \/ BuildReport
    \/ WriteReport

SpecDump == InitAwsDump /\ [][NextDump]_vars

\* ------------------------------------------------------------------ claims

\* The places of events that are calls of Refresh, and those that returned nil.
Attempts == {j \in 1..Len(events) : events[j].e = "Refresh"}
Successes == {j \in Attempts : events[j].n = 0}
Returned == op = "RefreshWithRetries" /\ pc = "idle"

\* C1: RefreshWithRetries calls Refresh at most MaxRetries times; a call of
\* Refresh that returns nil is the last thing it does and it returns nil; it
\* returns nil only after such a call; and it returns "Failed to refresh
\* config" only when MaxRetries calls of Refresh were made and all failed.
C1_AtMostMaxRetriesAttempts ==
    op = "RefreshWithRetries" =>
      /\ Cardinality(Attempts) <= cfg.MaxRetries
      /\ \A j \in Successes : j = Len(events) /\ Returned /\ ret = NoErr
      /\ (Returned /\ ret = NoErr) => Successes # {}
      /\ (Returned /\ ret # NoErr) =>
           /\ ret = FailedToRefresh
           /\ Successes = {}
           /\ Cardinality(Attempts) = cfg.MaxRetries

\* RefreshWithRetries returned nil from its third call of Refresh.
C1_Witness ==
    /\ Returned
    /\ ret = NoErr
    /\ Cardinality(Attempts) = 3
    /\ Successes = {Len(events)}

\* The provider calls of the last Refresh that failed.
FailedCalls == {j \in 1..Len(rstate.calls) : rstate.calls[j].err # NoErr}

\* C2: in every call of Refresh, a provider call that fails is the last
\* provider call made, its error is the error Refresh returns, and the
\* caller's output is left as it was.
C2_ProviderErrorAborts ==
    [][ op' = "Refresh" =>
          /\ \A j \in FailedCalls' :
               /\ j = Len(rstate'.calls)
               /\ ret' = rstate'.calls[j].err
          /\ ret' # NoErr => out' = out
          /\ ret' = NoErr => FailedCalls' = {} ]_vars

\* Refresh failed on a Source inside a nested map, after a provider call for
\* a Source of the top level had succeeded, and the caller's output, which
\* held an entry, holds what it held.
C2_Witness ==
    /\ op = "Refresh"
    /\ ret # NoErr
    /\ Len(rstate.calls) = 2
    /\ rstate.calls[1].err = NoErr
    /\ out = (<<"o">> :> StringV(<<"x">>))
    /\ \E k \in DOMAIN cfg.Static :
         /\ cfg.Static[k].t = "map"
         /\ \E n \in DOMAIN cfg.Static[k].m :
              /\ cfg.Static[k].m[n].t = "Source"
              /\ cfg.Static[k].m[n].Identifier = rstate.calls[2].arg
    /\ \E k \in DOMAIN cfg.Static :
         /\ cfg.Static[k].t = "Source"
         /\ cfg.Static[k].Identifier = rstate.calls[1].arg

\* The type whose key-prefix key starts with, and whose value-prefix value
\* starts with ("" when there is none).
KeyPrefixOf(key) ==
    IF HasPrefix(key, <<"K", "M", "S", "_">>) THEN "KMS"
    ELSE IF HasPrefix(key, <<"S", "S", "M", "_">>) THEN "SSM"
    ELSE IF HasPrefix(key, <<"S", "E", "C", "R", "E", "T", "S", "_",
                             "M", "A", "N", "A", "G", "E", "R", "_">>)
         THEN "SECRETS_MANAGER"
    ELSE IF HasPrefix(key, <<"F", "I", "L", "E", "_">>) THEN "FILE"
    ELSE ""

ValuePrefixOf(value) ==
    IF HasPrefix(value, <<"k", "m", "s", ":", "/", "/">>) THEN "KMS"
    ELSE IF HasPrefix(value, <<"s", "s", "m", ":", "/", "/">>) THEN "SSM"
    ELSE IF HasPrefix(value, <<"s", "e", "c", "r", "e", "t", "s", "-",
                               "m", "a", "n", "a", "g", "e", "r", ":", "/", "/">>)
         THEN "SECRETS_MANAGER"
    ELSE IF HasPrefix(value, <<"f", "i", "l", "e", ":", "/", "/">>) THEN "FILE"
    ELSE ""

\* The name a key with a key-prefix of n characters is stored under.
StrippedName(key, n) ==
    IF Len(key) > n /\ key[n + 1] = "_" THEN <<>> ELSE SubSeq(key, n + 1, Len(key))

PrefixLen(type) ==
    CASE type = "KMS" -> 4 [] type = "SSM" -> 4 [] type = "SECRETS_MANAGER" -> 16
      [] type = "FILE" -> 5

\* The key of dst an entry of src is written to.
DestinationKey(key, value) ==
    IF value.t = "string" /\ KeyPrefixOf(key) # ""
    THEN StrippedName(key, PrefixLen(KeyPrefixOf(key)))
    ELSE key

\* The string leaves of src, at this level, with both a key-prefix and a
\* value-prefix.
BothPrefixed(src) ==
    {k \in DOMAIN src : /\ src[k].t = "string"
                        /\ KeyPrefixOf(k) # ""
                        /\ ValuePrefixOf(src[k].s) # ""}

RECURSIVE KeyPrefixWins(_, _)
\* Every leaf of src with both prefixes is in dst, under its stripped name, the
\* Source of its key-prefix with the whole value as Identifier (unless another
\* entry of the same map is written to that key too); so in the nested maps.
KeyPrefixWins(src, dst) ==
    /\ \A k \in BothPrefixed(src) :
         LET name == StrippedName(k, PrefixLen(KeyPrefixOf(k)))
         IN  \/ \E o \in (DOMAIN src) \ {k} : DestinationKey(o, src[o]) = name
             \/ /\ name \in DOMAIN dst
                /\ dst[name] = Source(KeyPrefixOf(k), name, src[k].s)
    /\ \A k \in DOMAIN src :
         (src[k].t = "map" /\ \A o \in (DOMAIN src) \ {k} : DestinationKey(o, src[o]) # k)
           => /\ k \in DOMAIN dst
              /\ dst[k].t = "map"
              /\ KeyPrefixWins(src[k].m, dst[k].m)

\* C3: in the map GenerateFromMap returns, a string leaf whose key starts with
\* a key-prefix and whose value starts with a value-prefix is the Source of the
\* key-prefix's Type, named by the stripped key, with the whole value as
\* Identifier.
C3_KeyPrefixWins ==
    genPc = "returned" => KeyPrefixWins(genSrc, genDst)

\* GenerateFromMap returned for a map that holds, inside a nested map, a leaf
\* with a key-prefix and the value-prefix of another provider.
C3_Witness ==
    /\ genPc = "returned"
    /\ \E k \in DOMAIN genSrc :
         /\ genSrc[k].t = "map"
         /\ \E n \in BothPrefixed(genSrc[k].m) :
              KeyPrefixOf(n) # ValuePrefixOf(genSrc[k].m[n].s)

RECURSIVE NoPrefixes(_)
\* No string leaf of src, at any depth, has a key starting with a key-prefix
\* or a value starting with a value-prefix.
NoPrefixes(src) ==
    \A k \in DOMAIN src :
      /\ src[k].t = "string" => KeyPrefixOf(k) = "" /\ ValuePrefixOf(src[k].s) = ""
      /\ src[k].t = "map" => NoPrefixes(src[k].m)

\* C4: for an input with no prefixed string leaf GenerateFromMap returns a map
\* equal to the input, and no error.
C4_IdentityWithoutPrefixes ==
    (genPc = "returned" /\ NoPrefixes(genSrc)) => (genDst = genSrc /\ genErr = NoErr)

\* GenerateFromMap returned for an input with no prefixed string leaf that
\* holds, under a key with a key-prefix, a nested map with a string in it.
C4_Witness ==
    /\ genPc = "returned"
    /\ NoPrefixes(genSrc)
    /\ \E k \in DOMAIN genSrc :
         /\ genSrc[k].t = "map"
         /\ KeyPrefixOf(k) # ""
         /\ \E n \in DOMAIN genSrc[k].m : genSrc[k].m[n].t = "string"

RECURSIVE Pow2(_)
Pow2(n) == IF n = 0 THEN 1 ELSE 2 * Pow2(n - 1)

\* C5: when RefreshWithRetries returns after MaxRetries failed calls of
\* Refresh, what it did is: Refresh, a sleep of 4 seconds, Refresh, a sleep of
\* 8, ..., Refresh: one sleep between two calls of Refresh, each twice the one
\* before, and none after the last call.
C5_SleepsOnlyBetweenAttempts ==
    (Returned /\ ret = FailedToRefresh) =>
      /\ Len(events) = 2 * cfg.MaxRetries - 1
      /\ \A j \in 1..Len(events) :
           IF j % 2 = 1
           THEN events[j].e = "Refresh"
           ELSE events[j] = SleepEvent(Pow2(j \div 2 + 1))

\* C6: a step of Refresh or of RefreshWithRetries leaves the ConfigValues as it
\* was (Static with all that is in it, Sources, KeyPrefixes, ValuePrefixes,
\* MaxRetries), and a step that changes Static is one of Clear or SetFromJSON
\* (which calls SetFromMap).
C6_ImmutableDuringRefresh ==
    [][ /\ op' \in {"Refresh", "RefreshWithRetries"} => cfg' = cfg
        /\ cfg'.Static # cfg.Static => op' \in {"Clear", "SetFromJSON"} ]_vars

\* RefreshWithRetries gave up on a ConfigValues whose Static holds a nested map
\* with a Source in it.
C6_Witness ==
    /\ Returned
    /\ ret = FailedToRefresh
    /\ \E k \in DOMAIN cfg.Static :
         /\ cfg.Static[k].t = "map"
         /\ \E n \in DOMAIN cfg.Static[k].m : cfg.Static[k].m[n].t = "Source"

\* The client field of a provider, and the calls made on its client.
ClientFields == {"SSMClient", "SecretsManagerClient", "KMSClient"}

TypeOfClient(field) ==
    CASE field = "SSMClient" -> "SSM"
      [] field = "SecretsManagerClient" -> "SECRETS_MANAGER"
      [] field = "KMSClient" -> "KMS"

ApisOfClient(field) ==
    CASE field = "SSMClient" -> {"GetParameter", "GetParametersByPath"}
      [] field = "SecretsManagerClient" -> {"GetSecretValue"}
      [] field = "KMSClient" -> {"Decrypt"}

CallsOn(field) ==
    {j \in 1..Len(rstate.calls) : rstate.calls[j].api \in ApisOfClient(field)}

RECURSIVE SourceTypesIn(_)
\* The Types of the Sources in a tree.
SourceTypesIn(src) ==
    UNION { CASE src[k].t = "Source" -> {src[k].Type}
              [] src[k].t = "map" -> SourceTypesIn(src[k].m)
              [] OTHER -> {} : k \in DOMAIN src }

\* C7: in a Refresh each of the three clients is constructed at most once;
\* every call of a provider is made on the one client the RefreshState holds
\* for it; a client is held only if a call was made on it; and a provider
\* with no Source in the tree has no client.
C7_ClientsConstructedOnce ==
    op = "Refresh" =>
      \A f \in ClientFields :
        /\ Cardinality({j \in 1..Len(rstate.news) : rstate.news[j] = f}) <= 1
        /\ \A j \in CallsOn(f) :
             rstate[f] # 0 /\ rstate.calls[j].client = rstate[f]
        /\ rstate[f] # 0 <=> CallsOn(f) # {}
        /\ rstate[f] # 0 <=>
             \E j \in 1..Len(rstate.news) : rstate.news[j] = f /\ rstate[f] = j
        /\ TypeOfClient(f) \notin SourceTypesIn(cfg.Static) => rstate[f] = 0

\* A Refresh made two calls on the SSM client, one for a Source of the top
\* level and one for a Source in a nested map, and no call of another
\* provider.
C7_Witness ==
    /\ op = "Refresh"
    /\ Cardinality(CallsOn("SSMClient")) = 2
    /\ rstate.KMSClient = 0
    /\ rstate.SecretsManagerClient = 0
    /\ \E k \in DOMAIN cfg.Static : cfg.Static[k].t = "Source"
    /\ \E k \in DOMAIN cfg.Static :
         /\ cfg.Static[k].t = "map"
         /\ \E n \in DOMAIN cfg.Static[k].m : cfg.Static[k].m[n].t = "Source"

\* C8: ecs-deploy returns only when every service of --service was updated
\* and a DescribeServices poll showed each at its desired count.
C8_ReturnsOnlyWhenDeployed ==
    deployPc = "done" =>
      /\ Range(services) \subseteq updated
      /\ polls > 0
      /\ \A s \in Range(services) : s \in DOMAIN lastPoll /\ lastPoll[s] = "ready"

\* The UniqueIDs of the terraform state aws-dump loaded (none when it loaded
\* none).
LoadedIDs == IF managed = Unset THEN {} ELSE DOMAIN managed.m

NotLoaded(resource) == resource.uid \notin LoadedIDs

\* C9: with --only-unmanaged the report written is the resources fetched,
\* less those whose UniqueID is in the terraform state loaded, in the order
\* fetched.
C9_OnlyUnmanagedReport ==
    (dumpPc = "done" /\ onlyUnmanaged) =>
      /\ written # Unset
      /\ written.report = SelectSeq(resources, NotLoaded)

\* aws-dump wrote a report with --only-unmanaged, having fetched three
\* resources of which the terraform state loaded has the second only.
C9_Witness ==
    /\ dumpPc = "done"
    /\ onlyUnmanaged
    /\ managed # Unset
    /\ Len(resources) = 3
    /\ ~NotLoaded(resources[2])
    /\ NotLoaded(resources[1])
    /\ NotLoaded(resources[3])

BothTaskFlags == taskJSON # "" /\ taskName # ""
NoTaskFlag == taskJSON = "" /\ taskName = ""

\* C10: with both of --task-json and --task-name, or with neither, ecs-deploy
\* gets no further than reading the task definition: it is fatal, with no
\* task definition registered and no UpdateService call made.
C10_ExactlyOneTaskFlag ==
    /\ BothTaskFlags => deployPc \in {"flags", "fatal"}
    /\ NoTaskFlag => deployPc \in {"flags", "load", "fatal"}
    /\ (BothTaskFlags \/ NoTaskFlag) =>
         ~registered /\ updateCalls = 0 /\ updated = {} /\ polls = 0

\* ecs-deploy, given both flags, was fatal.
C10_Witness ==
    /\ BothTaskFlags
    /\ deployPc = "fatal"

\* ------------------------------------------------------------------- C11

\* One turn of the wait loop: DescribeServices has been called once more.
PollStep == polls' = polls + 1

\* main has left the wait loop: it returned or it exited through log.Fatalln.
LoopEnded == deployPc \in {"done", "fatal"}

\* C11 as stated, its last clause: the wait loop never polls again at an
\* elapsed time of at least --timeout with services pending.  (The time is
\* tested after a poll and before the sleep of one second, so the time can
\* reach --timeout during the sleep and the next poll is still made.)
C11_NeverPollsAfterTimeout ==
    [][(PollStep /\ polls > 0) => ~(elapsed >= timeout /\ pending > 0)]_vars

\* C11, amended: the wait loop always ends.  Every poll ends in one of three
\* ways: it is fatal (DescribeServices failed, or services are pending and the
\* time elapsed when the poll has returned is at least --timeout); or no
\* service is pending and main returns; or services are pending, the elapsed
\* time is below --timeout, and the loop sleeps before it polls again.  After
\* a poll that found services pending at an elapsed time of at least
\* --timeout nothing is polled any more, and main returns only with no
\* service pending.  (A poll may begin after --timeout has elapsed during the
\* sleep before it.)
C11_WaitLoopEnds ==
    /\ <>LoopEnded
    /\ [][PollStep =>
            /\ \/ deployPc' = "fatal"
               \/ pending' = 0 /\ deployPc' = "for"
               \/ pending' > 0 /\ elapsed' < timeout /\ deployPc' = "sleep"
            /\ (pending' > 0 /\ elapsed' >= timeout) => deployPc' = "fatal"]_vars
    /\ [][deployPc = "fatal" => deployPc' = "fatal" /\ polls' = polls]_vars
    /\ [][deployPc' = "done" => pending' = 0 /\ polls' = polls]_vars

\* The loop gave up at the second poll or later: services were still pending
\* and the elapsed time had reached --timeout.
C11_Witness ==
    /\ deployPc = "fatal"
    /\ polls >= 2
    /\ pending > 0
    /\ lastPoll # <<>>
    /\ Pending(lastPoll) = pending
    /\ elapsed >= timeout

\* ------------------------------------------------------------------- C12

RECURSIVE NoSharedDestination(_)
\* No two distinct keys of src, at any nesting level, are written to the same
\* key of dst.
NoSharedDestination(src) ==
    /\ \A k1, k2 \in DOMAIN src :
         k1 # k2 => DestinationKey(k1, src[k1]) # DestinationKey(k2, src[k2])
    /\ \A k \in DOMAIN src : src[k].t = "map" => NoSharedDestination(src[k].m)

\* C12: GenerateFromMap is deterministic: the map it returned is the only one
\* it can return for its input, over every iteration order of the input map
\* and of the prefix tables; and no two distinct keys of one input map are
\* written to the same output key, so the output has an entry for every entry
\* of the input.
C12_Deterministic ==
    genPc = "returned" =>
      /\ GenerateFromMap(NewConfigValues, genSrc) = {genDst}
      /\ NoSharedDestination(genSrc)
      /\ Cardinality(DOMAIN genDst) = Cardinality(DOMAIN genSrc)

====
